---- MODULE Spec2Model ----
(***************************************************************************)
(* Model of uMedical_voiceNote/voiceprogram.c++: main emits an 18 kHz tone *)
(* with Beep and then reads a fixed medical note aloud through SAPI        *)
(* (CoInitialize, CoCreateInstance, ISpVoice::Speak, Release,              *)
(* CoUninitialize).  One action per statement of the program; the host     *)
(* primitives are operators on a process record that log every call.       *)
(***************************************************************************)
EXTENDS Integers, Sequences, FiniteSets, TLC

\* proc[p] is the state of process p: its program counter, the locals of
\* main and speakText, the streams, and the host state the calls act on.
VARIABLES proc

vars == <<proc>>

(***************************************************************************)
(* Bounds of the model                                                     *)
(***************************************************************************)
\* How many times a caller invokes the sequence generateTone; speakText.
MaxRuns == 2
\* How many CoInitialize calls the thread may already hold when main starts.
MaxAmbient == 1

(***************************************************************************)
(* Program constants                                                       *)
(***************************************************************************)
TheNote == "The patient has been complaining of chest pain for the past week. ECG shows irregular rhythm. Prescribed low dose beta-blocker. Recommended follow-up in 5 days."

ToneFrequency == 18000
ToneDuration == 3000
SPF_IS_XML == 8

\* HRESULT values (signed 32-bit) the host calls can return.
S_OK == 0
S_FALSE == 1
E_OUTOFMEMORY == -2147024882
RPC_E_CHANGED_MODE == -2147417850
CO_E_NOTINITIALIZED == -2147221008
REGDB_E_CLASSNOTREG == -2147221164
E_NOINTERFACE == -2147467262
E_INVALIDARG == -2147024809
SPERR_UNINITIALIZED == -2147201023

\* The FAILED and SUCCEEDED macros: the sign bit of the HRESULT decides.
FAILED(h) == h < 0
SUCCEEDED(h) == h >= 0

\* The host primitives, as they appear in the log.
HostOps == {"Beep", "CoInitialize", "CoCreateInstance", "Speak", "Release",
            "CoUninitialize"}

(***************************************************************************)
(* The state of a process before main's first statement.                   *)
(***************************************************************************)
InitProc(base) ==
    [pc |-> "L47", run |-> 1,
     voice_to_speak |-> "", text |-> "", pVoice |-> 0, hr |-> 0,
     cout |-> <<>>, cerr |-> <<>>, returned |-> <<>>,
     comBase |-> base, comInit |-> base, live |-> {}, nextObj |-> 1,
     trace |-> <<>>, faults |-> <<>>]

Goto(s, l) == [s EXCEPT !.pc = l]

\* Every call is logged with the run it belongs to, its arguments, its
\* return value and, for CoCreateInstance, the handle written to *ppv.
Log(s, op, args, ret, out) ==
    [s EXCEPT !.trace = Append(@, [run |-> s.run, op |-> op, args |-> args,
                                   ret |-> ret, out |-> out])]

Fault(s, what) == [s EXCEPT !.faults = Append(@, what)]

\* The frame of speakText is gone once it returns.
PopFrame(s) == [s EXCEPT !.text = "", !.pVoice = 0, !.hr = 0]

(***************************************************************************)
(* Host primitives                                                         *)
(***************************************************************************)
\* Beep returns a BOOL: nonzero on success, zero on failure.
BeepResults == {0, 1}

Beep(s, dwFreq, dwDuration, ret) ==
    Log(s, "Beep", <<dwFreq, dwDuration>>, ret, 0)

\* CoInitialize: S_OK on a thread not yet initialized, S_FALSE on one that
\* is, or a failure; every success adds one to the thread's count.
CoInitializeResults(s) ==
    IF s.comInit = 0 THEN {S_OK, E_OUTOFMEMORY}
                     ELSE {S_FALSE, RPC_E_CHANGED_MODE}

CoInitialize(s, ret) ==
    LET t == Log(s, "CoInitialize", <<0>>, ret, 0)
    IN  IF ret >= 0 THEN [t EXCEPT !.comInit = @ + 1] ELSE t

\* CoCreateInstance: on success a new voice object with one reference is
\* written to *ppv (pVoice); on failure *ppv is set to NULL.
CoCreateInstanceResults(s) ==
    IF s.comInit = 0 THEN {CO_E_NOTINITIALIZED}
                     ELSE {S_OK, REGDB_E_CLASSNOTREG, E_NOINTERFACE}

CoCreateInstance(s, ret) ==
    LET args == <<"CLSID_SpVoice", "nullptr", "CLSCTX_ALL", "IID_ISpVoice">>
    IN  IF ret = S_OK
        THEN [Log(s, "CoCreateInstance", args, ret, s.nextObj)
                EXCEPT !.pVoice = s.nextObj,
                       !.live = @ \cup {s.nextObj},
                       !.nextObj = @ + 1]
        ELSE [Log(s, "CoCreateInstance", args, ret, 0) EXCEPT !.pVoice = 0]

\* ISpVoice::Speak on handle h; a handle that is not a live object is a
\* misuse the host cannot serve.
SpeakResults == {S_OK, E_INVALIDARG, SPERR_UNINITIALIZED}

Speak(s, h, pwcs, dwFlags, ret) ==
    LET t == Log(s, "Speak", <<h, pwcs, dwFlags>>, ret, 0)
    IN  IF h \in s.live THEN t ELSE Fault(t, "Speak on a dead handle")

\* IUnknown::Release on handle h: the object had one reference and dies.
Release(s, h) ==
    LET t == Log(s, "Release", <<h>>, 0, 0)
    IN  IF h \in s.live THEN [t EXCEPT !.live = @ \ {h}]
                        ELSE Fault(t, "Release on a dead handle")

\* CoUninitialize gives back one CoInitialize of the thread.
CoUninitialize(s) ==
    LET t == Log(s, "CoUninitialize", <<>>, 0, 0)
    IN  IF s.comInit > 0 THEN [t EXCEPT !.comInit = @ - 1]
                         ELSE Fault(t, "CoUninitialize without CoInitialize")

(***************************************************************************)
(* The program, one action per statement                                   *)
(***************************************************************************)
At(p, l) == proc[p].pc = l
Set(p, s) == proc' = [proc EXCEPT ![p] = s]

\* main, line 47: the note is constructed.
main_voice_to_speak(p) ==
    /\ At(p, "L47")
    /\ Set(p, Goto([proc[p] EXCEPT !.voice_to_speak = TheNote], "L49"))

\* A slip: main goes on to the speech without calling generateTone.
main_cout_tone_skips(p) ==
    /\ At(p, "L49")
    /\ Set(p, Goto([proc[p] EXCEPT !.cout = Append(@, "Generating 18kHz tone...")], "L52"))

\* main, line 49.
main_cout_tone(p) ==
    /\ At(p, "L49")
    /\ Set(p, Goto([proc[p] EXCEPT !.cout = Append(@, "Generating 18kHz tone...")], "L50"))

\* main, line 50: the call of generateTone.
main_generateTone(p) ==
    /\ At(p, "L50")
    /\ Set(p, Goto(Log(proc[p], "generateTone", <<>>, 0, 0), "L22"))

\* A slip: the arguments of Beep in the wrong order.
generateTone_Beep_swapped(p) ==
    /\ At(p, "L22")
    /\ \E ret \in BeepResults :
          Set(p, Goto(Beep(proc[p], ToneDuration, ToneFrequency, ret), "L24"))

\* generateTone, line 22: the result of Beep is discarded.
generateTone_Beep(p) ==
    /\ At(p, "L22")
    /\ \E ret \in BeepResults :
          Set(p, Goto(Beep(proc[p], ToneFrequency, ToneDuration, ret), "L24"))

\* generateTone, line 24.
generateTone_return(p) ==
    /\ At(p, "L24")
    /\ Set(p, Goto(proc[p], "L52"))

\* main, line 52.
main_cout_speak(p) ==
    /\ At(p, "L52")
    /\ Set(p, Goto([proc[p] EXCEPT !.cout = Append(@, "Speaking medical note...")], "L53"))

\* main, line 53: the call of speakText, text bound to voice_to_speak.
main_speakText(p) ==
    /\ At(p, "L53")
    /\ Set(p, Goto([Log(proc[p], "speakText", <<proc[p].voice_to_speak>>, 0, 0)
                      EXCEPT !.text = proc[p].voice_to_speak], "L27"))

\* speakText, line 27.
speakText_pVoice(p) ==
    /\ At(p, "L27")
    /\ Set(p, Goto([proc[p] EXCEPT !.pVoice = 0], "L29"))

\* speakText, line 29: CoInitialize and the FAILED test on its result.
speakText_CoInitialize(p) ==
    /\ At(p, "L29")
    /\ \E ret \in CoInitializeResults(proc[p]) :
          Set(p, Goto(CoInitialize(proc[p], ret),
                      IF FAILED(ret) THEN "L30" ELSE "L34"))

\* speakText, line 30.
speakText_cerr_COM(p) ==
    /\ At(p, "L30")
    /\ Set(p, Goto([proc[p] EXCEPT !.cerr = Append(@, "Failed to initialize COM.")], "L31"))

\* A slip: the return after the error message is missing.
speakText_return_early_missing(p) ==
    /\ At(p, "L31")
    /\ Set(p, Goto(proc[p], "L34"))

\* speakText, line 31: the early return.
speakText_return_early(p) ==
    /\ At(p, "L31")
    /\ Set(p, Goto(PopFrame(proc[p]), "L55"))

\* speakText, line 34: hr takes the result, pVoice the new handle.
speakText_CoCreateInstance(p) ==
    /\ At(p, "L34")
    /\ \E ret \in CoCreateInstanceResults(proc[p]) :
          Set(p, Goto([CoCreateInstance(proc[p], ret) EXCEPT !.hr = ret], "L36"))

\* A slip: the test on hr inverted.
speakText_SUCCEEDED_inverted(p) ==
    /\ At(p, "L36")
    /\ Set(p, Goto(proc[p], IF SUCCEEDED(proc[p].hr) THEN "L40" ELSE "L37"))

\* A slip: a failed creation is tried again.
speakText_SUCCEEDED_retry(p) ==
    /\ At(p, "L36")
    /\ Set(p, Goto(proc[p], IF SUCCEEDED(proc[p].hr) THEN "L37" ELSE "L34"))

\* speakText, line 36: the branch on SUCCEEDED(hr).
speakText_SUCCEEDED(p) ==
    /\ At(p, "L36")
    /\ Set(p, Goto(proc[p], IF SUCCEEDED(proc[p].hr) THEN "L37" ELSE "L40"))

\* A slip: the result of Speak is tested and a failure reported.
speakText_Speak_checked(p) ==
    /\ At(p, "L37")
    /\ \E ret \in SpeakResults :
          LET t == Speak(proc[p], proc[p].pVoice, proc[p].text, SPF_IS_XML, ret)
          IN  Set(p, Goto(IF FAILED(ret)
                          THEN [t EXCEPT !.cerr = Append(@, "Failed to speak.")]
                          ELSE t, "L38"))

\* A slip: the voice is released before it is used.
speakText_Speak_after_Release(p) ==
    /\ At(p, "L37")
    /\ \E ret \in SpeakResults :
          Set(p, Goto(Speak(Release(proc[p], proc[p].pVoice),
                            proc[p].pVoice, proc[p].text, SPF_IS_XML, ret), "L43"))

\* speakText, line 37: the result of Speak is discarded.
speakText_Speak(p) ==
    /\ At(p, "L37")
    /\ \E ret \in SpeakResults :
          Set(p, Goto(Speak(proc[p], proc[p].pVoice, proc[p].text, SPF_IS_XML, ret), "L38"))

\* A slip: the voice is never released.
speakText_Release_forgotten(p) ==
    /\ At(p, "L38")
    /\ Set(p, Goto(proc[p], "L43"))

\* speakText, line 38.
speakText_Release(p) ==
    /\ At(p, "L38")
    /\ Set(p, Goto(Release(proc[p], proc[p].pVoice), "L43"))

\* A slip: the error branch returns without CoUninitialize.
speakText_cerr_voice_returns(p) ==
    /\ At(p, "L40")
    /\ Set(p, Goto([proc[p] EXCEPT !.cerr = Append(@, "Failed to create SAPI voice instance.")], "L44"))

\* speakText, line 40.
speakText_cerr_voice(p) ==
    /\ At(p, "L40")
    /\ Set(p, Goto([proc[p] EXCEPT !.cerr = Append(@, "Failed to create SAPI voice instance.")], "L43"))

\* speakText, line 43.
speakText_CoUninitialize(p) ==
    /\ At(p, "L43")
    /\ Set(p, Goto(CoUninitialize(proc[p]), "L44"))

\* speakText, line 44.
speakText_return(p) ==
    /\ At(p, "L44")
    /\ Set(p, Goto(PopFrame(proc[p]), "L55"))

\* A slip: the exit code reports whether an error was logged.
main_return_status(p) ==
    /\ At(p, "L55")
    /\ Set(p, Goto([proc[p] EXCEPT !.returned = IF proc[p].cerr = <<>> THEN <<0>> ELSE <<1>>], "exit"))

\* main, line 55: return 0.
main_return(p) ==
    /\ At(p, "L55")
    /\ Set(p, Goto([proc[p] EXCEPT !.returned = <<0>>], "exit"))

\* A caller that invokes the sequence of lines 49-53 once more instead of
\* returning.
Again(p) ==
    /\ At(p, "L55")
    /\ proc[p].run < MaxRuns
    /\ Set(p, Goto([proc[p] EXCEPT !.run = @ + 1], "L49"))

Next ==
    \/ \E p \in DOMAIN proc : main_voice_to_speak(p)
    \/ \E p \in DOMAIN proc : main_cout_tone(p)
    \/ \E p \in DOMAIN proc : main_generateTone(p)
    \/ \E p \in DOMAIN proc : generateTone_Beep(p)
    \/ \E p \in DOMAIN proc : generateTone_return(p)
    \/ \E p \in DOMAIN proc : main_cout_speak(p)
    \/ \E p \in DOMAIN proc : main_speakText(p)
    \/ \E p \in DOMAIN proc : speakText_pVoice(p)
    \/ \E p \in DOMAIN proc : speakText_CoInitialize(p)
    \/ \E p \in DOMAIN proc : speakText_cerr_COM(p)
    \/ \E p \in DOMAIN proc : speakText_return_early(p)
    \/ \E p \in DOMAIN proc : speakText_CoCreateInstance(p)
    \/ \E p \in DOMAIN proc : speakText_SUCCEEDED(p)
    \/ \E p \in DOMAIN proc : speakText_Speak(p)
    \/ \E p \in DOMAIN proc : speakText_Release(p)
    \/ \E p \in DOMAIN proc : speakText_cerr_voice(p)
    \/ \E p \in DOMAIN proc : speakText_CoUninitialize(p)
    \/ \E p \in DOMAIN proc : speakText_return(p)
    \/ \E p \in DOMAIN proc : main_return(p)

\* One run of main in one process.
Init == \E base \in 0..MaxAmbient : proc = [p \in {1} |-> InitProc(base)]
Spec == Init /\ [][Next]_vars

\* The sequence invoked up to MaxRuns times in one process.
NextSeq ==
    \/ Next
    \/ \E p \in DOMAIN proc : Again(p)
SpecSeq == Init /\ [][NextSeq]_vars

\* Two runs of main, each against its own host.
InitPair == proc \in [{1, 2} -> {InitProc(base) : base \in 0..MaxAmbient}]
SpecPair == InitPair /\ [][Next]_vars

\* One run of main under the scheduling of a sequential program: a step
\* that can be taken is taken (every host call returns).
FairSpec == Spec /\ WF_vars(Next)

(***************************************************************************)
(* Reading the log                                                         *)
(***************************************************************************)
Where(s, op) == {i \in 1..Len(s.trace) : s.trace[i].op = op}
Count(s, op) == Cardinality(Where(s, op))
Succeeded(s, op) == {i \in Where(s, op) : s.trace[i].ret >= 0}
Failing(s, op) == {i \in Where(s, op) : s.trace[i].ret < 0}
HostCalls(s) == SelectSeq(s.trace, LAMBDA e : e.op \in HostOps)
SpeechOps == HostOps \ {"Beep"}

\* Every host call made so far succeeded.
Healthy(s) ==
    \A i \in 1..Len(s.trace) :
        /\ s.trace[i].op = "Beep" => s.trace[i].ret # 0
        /\ s.trace[i].op \in SpeechOps => s.trace[i].ret >= 0

\* speakText has returned to main.
Back(s) == s.pc \in {"L55", "exit"}

(***************************************************************************)
(* Claims                                                                  *)
(***************************************************************************)

\* C1: in a run of main where every host call succeeds, the program has
\* issued, when it exits, exactly one Beep with arguments (18000, 3000) and
\* exactly one Speak whose text is the literal note of main, unmodified,
\* and its exit code is 0.
C1_HealthyRun ==
    \A p \in DOMAIN proc :
        LET s == proc[p]
        IN  (s.pc = "exit" /\ Healthy(s)) =>
              /\ Count(s, "Beep") = 1
              /\ \A i \in Where(s, "Beep") : s.trace[i].args = <<18000, 3000>>
              /\ Count(s, "Speak") = 1
              /\ \A i \in Where(s, "Speak") :
                    /\ s.trace[i].args[2] = TheNote
                    /\ s.trace[i].args[2] = s.voice_to_speak
              /\ s.returned = <<0>>

C1_Witness ==
    \E p \in DOMAIN proc :
        /\ proc[p].pc = "exit"
        /\ Healthy(proc[p])
        /\ Count(proc[p], "Speak") = 1
        /\ Count(proc[p], "Beep") = 1

\* C2: whatever the outcomes of CoInitialize, CoCreateInstance and Speak,
\* once speakText has returned CoUninitialize was called exactly once per
\* successful CoInitialize, Release exactly once per created voice and on
\* that voice, and nothing that was not acquired was released; before the
\* return no more was released than was acquired.
C2_ReleasedExactlyOnce ==
    \A p \in DOMAIN proc :
        LET s == proc[p]
        IN  /\ s.faults = <<>>
            /\ Count(s, "CoUninitialize") <= Cardinality(Succeeded(s, "CoInitialize"))
            /\ Count(s, "Release") <= Cardinality(Succeeded(s, "CoCreateInstance"))
            /\ \A i \in Where(s, "Release") :
                  \E j \in Succeeded(s, "CoCreateInstance") :
                      j < i /\ s.trace[i].args = <<s.trace[j].out>>
            /\ Back(s) =>
                  /\ Count(s, "CoUninitialize") = Cardinality(Succeeded(s, "CoInitialize"))
                  /\ Count(s, "Release") = Cardinality(Succeeded(s, "CoCreateInstance"))
                  /\ s.live = {}
                  /\ s.comInit = s.comBase

C2_Witness ==
    \E p \in DOMAIN proc :
        /\ proc[p].pc = "L55"
        /\ Count(proc[p], "Release") = 1
        /\ Count(proc[p], "CoUninitialize") = 1

\* C3: when CoInitialize fails, speakText never calls CoCreateInstance nor
\* Speak (nor Release nor CoUninitialize), writes its error to the error
\* stream, and returns to main, which goes on to its return.
C3_InitFailure ==
    \A p \in DOMAIN proc :
        LET s == proc[p]
        IN  Failing(s, "CoInitialize") # {} =>
              /\ Count(s, "CoCreateInstance") = 0
              /\ Count(s, "Speak") = 0
              /\ Count(s, "Release") = 0
              /\ Count(s, "CoUninitialize") = 0
              /\ s.faults = <<>>
              /\ s.pc \in {"L30", "L31", "L55", "exit"}
              /\ s.pc # "L30" => s.cerr = <<"Failed to initialize COM.">>
              /\ s.pc # "exit" => ENABLED Next

C3_Witness ==
    \E p \in DOMAIN proc :
        /\ proc[p].pc = "L55"
        /\ Failing(proc[p], "CoInitialize") # {}
        /\ proc[p].cerr # <<>>

\* C4: when CoInitialize succeeds and CoCreateInstance fails, speakText
\* logs exactly one error message, issues no Speak and no Release, still
\* calls CoUninitialize (once), and returns to main.
C4_CreateFailure ==
    \A p \in DOMAIN proc :
        LET s == proc[p]
        IN  Failing(s, "CoCreateInstance") # {} =>
              /\ Succeeded(s, "CoInitialize") # {}
              /\ Count(s, "Speak") = 0
              /\ Count(s, "Release") = 0
              /\ s.faults = <<>>
              /\ s.pc \in {"L36", "L40", "L43", "L44", "L55", "exit"}
              /\ s.pc \in {"L36", "L40"} => s.cerr = <<>>
              /\ s.pc \in {"L43", "L44", "L55", "exit"} =>
                    s.cerr = <<"Failed to create SAPI voice instance.">>
              /\ s.pc \in {"L36", "L40", "L43"} => Count(s, "CoUninitialize") = 0
              /\ s.pc \in {"L44", "L55", "exit"} =>
                    Count(s, "CoUninitialize") = 1 /\ s.comInit = s.comBase
              /\ s.pc # "exit" => ENABLED Next

C4_Witness ==
    \E p \in DOMAIN proc :
        /\ proc[p].pc = "L55"
        /\ Failing(proc[p], "CoCreateInstance") # {}
        /\ Len(proc[p].cerr) = 1
        /\ Count(proc[p], "CoUninitialize") = 1

\* C5: for every combination of success and failure of Beep, CoInitialize,
\* CoCreateInstance and Speak, main reaches its return, and the exit code
\* is 0 whatever was logged.
C5_AlwaysExitsZero ==
    /\ [](\A p \in DOMAIN proc :
             /\ proc[p].pc = "exit" => proc[p].returned = <<0>>
             /\ proc[p].returned # <<>> => proc[p].returned = <<0>>)
    /\ <>(\A p \in DOMAIN proc : proc[p].pc = "exit" /\ proc[p].returned = <<0>>)

C5_Witness ==
    \E p \in DOMAIN proc :
        /\ proc[p].pc = "exit"
        /\ proc[p].cerr # <<>>
        /\ \E i \in Where(proc[p], "Beep") : proc[p].trace[i].ret = 0

\* C6: main calls generateTone exactly once, then speakText exactly once,
\* then exits; Beep has returned before CoInitialize, CoCreateInstance,
\* Speak, Release or CoUninitialize begins, so no speech step precedes or
\* overlaps the tone.
C6_ToneThenSpeech ==
    \A p \in DOMAIN proc :
        LET s == proc[p]
            speech == {i \in 1..Len(s.trace) :
                          s.trace[i].op \in SpeechOps \cup {"speakText"}}
            tone == Where(s, "Beep") \cup Where(s, "generateTone")
        IN  /\ Count(s, "generateTone") <= 1
            /\ Count(s, "speakText") <= 1
            /\ \A i \in speech : \E j \in Where(s, "Beep") : j < i
            /\ \A i \in speech : \A j \in tone : j < i
            /\ \A i \in Where(s, "speakText") :
                  \E j \in Where(s, "generateTone") : j < i
            /\ s.pc \in {"L47", "L49", "L50", "L22", "L24", "L52", "L53"} => speech = {}
            /\ s.pc \in {"L27", "L29", "L30", "L31", "L34", "L36", "L37",
                         "L38", "L40", "L43", "L44"} =>
                  Count(s, "Beep") = 1 /\ Count(s, "speakText") = 1
            /\ s.pc = "exit" =>
                  /\ Count(s, "generateTone") = 1
                  /\ Count(s, "speakText") = 1
                  /\ Count(s, "Beep") = 1

C6_Witness ==
    \E p \in DOMAIN proc :
        /\ proc[p].pc = "exit"
        /\ Count(proc[p], "Beep") = 1
        /\ Count(proc[p], "Speak") = 1
        /\ Count(proc[p], "CoUninitialize") = 1

\* The calls of op made in run r.
InRun(s, r, op) == {i \in Where(s, op) : s.trace[i].run = r}

\* C7: when the sequence generateTone; speakText is invoked several times
\* in succession on a healthy backend, every invocation makes its own Beep
\* (18000, 3000), its own CoInitialize and CoCreateInstance and its own
\* Speak of the note; when an invocation starts, every voice of the earlier
\* ones is released and the runtime is uninitialized; and every Speak uses
\* the handle created in its own invocation, never one of another.
C7_RunsIndependent ==
    \A p \in DOMAIN proc :
        LET s == proc[p]
        IN  /\ (Healthy(s) /\ Back(s)) =>
                  \A r \in 1..s.run :
                      /\ Cardinality(InRun(s, r, "Beep")) = 1
                      /\ \A i \in InRun(s, r, "Beep") : s.trace[i].args = <<18000, 3000>>
                      /\ Cardinality(InRun(s, r, "CoInitialize")) = 1
                      /\ Cardinality(InRun(s, r, "CoCreateInstance")) = 1
                      /\ Cardinality(InRun(s, r, "Speak")) = 1
                      /\ \A i \in InRun(s, r, "Speak") :
                            s.trace[i].args[2] = TheNote /\ s.trace[i].args[3] = 8
            /\ s.pc \in {"L49", "L50", "L22", "L24", "L52", "L53", "L27", "L29"} =>
                  /\ s.live = {}
                  /\ s.comInit = s.comBase
                  /\ s.pVoice = 0
                  /\ Count(s, "Release") = Cardinality(Succeeded(s, "CoCreateInstance"))
                  /\ Count(s, "CoUninitialize") = Cardinality(Succeeded(s, "CoInitialize"))
            /\ \A i \in Where(s, "Speak") :
                  /\ \E j \in InRun(s, s.trace[i].run, "CoCreateInstance") :
                        j < i /\ s.trace[j].ret >= 0 /\ s.trace[j].out = s.trace[i].args[1]
                  /\ \E j \in InRun(s, s.trace[i].run, "CoInitialize") :
                        j < i /\ s.trace[j].ret >= 0
                  /\ \A j \in Where(s, "CoCreateInstance") :
                        s.trace[j].run # s.trace[i].run => s.trace[j].out # s.trace[i].args[1]

C7_Witness ==
    \E p \in DOMAIN proc :
        /\ proc[p].run = 2
        /\ Back(proc[p])
        /\ Healthy(proc[p])
        /\ Count(proc[p], "Speak") = 2
        /\ Count(proc[p], "Beep") = 2

\* Two logged calls are the same call: the same primitive with the same
\* arguments (the results are left out).
SameCall(e, f) == e.op = f.op /\ e.args = f.args

\* The results op returned in the run of s.
Results(s, op) == {s.trace[i].ret : i \in Where(s, op)}

\* C8: two runs of main in which CoInitialize and CoCreateInstance returned
\* the same results, whatever Beep and Speak returned in each, make the
\* same sequence of host calls, log the same error messages and exit with
\* the same code; a failed Beep is followed by the speech steps, a failed
\* Speak by Release and CoUninitialize, and neither failure is logged.
C8_ToneAndSpeakUnobserved ==
    \A p, q \in DOMAIN proc :
        LET s == proc[p]
            t == proc[q]
            hs == HostCalls(s)
            ht == HostCalls(t)
        IN  /\ ( /\ s.pc = "exit" /\ t.pc = "exit"
                 /\ Results(s, "CoInitialize") = Results(t, "CoInitialize")
                 /\ Results(s, "CoCreateInstance") = Results(t, "CoCreateInstance") ) =>
                  /\ Len(hs) = Len(ht)
                  /\ \A i \in 1..Len(hs) : i <= Len(ht) => SameCall(hs[i], ht[i])
                  /\ s.cerr = t.cerr
                  /\ s.cout = t.cout
                  /\ s.returned = t.returned
            /\ s.pc = "exit" =>
                  /\ Count(s, "CoInitialize") = 1
                  /\ Where(s, "Speak") # {} =>
                        /\ Count(s, "Release") = 1
                        /\ Count(s, "CoUninitialize") = 1
                        /\ s.cerr = <<>>

C8_Witness ==
    \E p, q \in DOMAIN proc :
        LET s == proc[p]
            t == proc[q]
        IN  /\ s.pc = "exit" /\ t.pc = "exit"
            /\ Results(s, "CoInitialize") = Results(t, "CoInitialize")
            /\ Results(s, "CoCreateInstance") = Results(t, "CoCreateInstance")
            /\ Results(s, "Beep") = {1} /\ Results(t, "Beep") = {0}
            /\ Results(s, "Speak") = {S_OK} /\ Results(t, "Speak") = {E_INVALIDARG}

\* C9: in one run of main, whichever host calls fail, each of Beep,
\* CoInitialize, CoCreateInstance, Speak, Release and CoUninitialize is
\* called at most once; a call that failed is not made again.
C9_NoRetries ==
    \A p \in DOMAIN proc :
        \A op \in HostOps : Count(proc[p], op) <= 1

C9_Witness ==
    \E p \in DOMAIN proc :
        /\ proc[p].pc = "exit"
        /\ Failing(proc[p], "CoCreateInstance") # {}
        /\ \E i \in Where(proc[p], "Beep") : proc[p].trace[i].ret = 0

\* C10: a voice object is alive only while the runtime initialized by
\* speakText is; Speak is issued if and only if CoInitialize and
\* CoCreateInstance both succeeded, on the handle created and while it is
\* alive; and Release comes after Speak has returned and before
\* CoUninitialize, on the same handle.
C10_Lifecycle ==
    \A p \in DOMAIN proc :
        LET s == proc[p]
        IN  /\ s.faults = <<>>
            /\ s.live # {} => s.comInit > s.comBase
            /\ s.pc = "L37" => s.pVoice \in s.live /\ s.comInit > s.comBase
            /\ s.pc \in {"L43", "L44"} => s.live = {}
            /\ \A i \in Where(s, "Speak") :
                  /\ \E j \in Succeeded(s, "CoCreateInstance") :
                        /\ j < i
                        /\ s.trace[j].out = s.trace[i].args[1]
                        /\ \E k \in Succeeded(s, "CoInitialize") : k < j
                  /\ \A j \in Where(s, "Release") \cup Where(s, "CoUninitialize") : i < j
            /\ \A r \in Where(s, "Release") :
                  /\ \E i \in Where(s, "Speak") :
                        i < r /\ s.trace[r].args = <<s.trace[i].args[1]>>
                  /\ \A u \in Where(s, "CoUninitialize") : r < u
            /\ s.pc \in {"L38", "L43", "L44", "L55", "exit"} =>
                  ( Count(s, "Speak") = 1 <=>
                      /\ Succeeded(s, "CoInitialize") # {}
                      /\ Succeeded(s, "CoCreateInstance") # {} )
            /\ Back(s) => (Count(s, "Speak") = 1 <=> Count(s, "Release") = 1)

C10_Witness ==
    \E p \in DOMAIN proc :
        /\ proc[p].pc = "L44"
        /\ Count(proc[p], "Speak") = 1
        /\ Count(proc[p], "Release") = 1
        /\ Count(proc[p], "CoUninitialize") = 1

====
